---- MODULE Spec2Model ----
(***************************************************************************)
(* Model of niralysis/calculate_differences.py.                            *)
(*                                                                         *)
(* A pandas DataFrame is a record [columns, nrows, data]: columns is the   *)
(* ordered list of column names, nrows the length of its RangeIndex, and   *)
(* data[kp] a function from the row labels whose cell has been written to  *)
(* the cell's value (a row label outside DOMAIN data[kp] is a NaN cell).   *)
(* Row labels and list positions are 0-based, as in the source.            *)
(* Coordinates are non-negative integers (0 is the "not detected"          *)
(* sentinel), so exactly one of the four branches of the scan applies to a *)
(* transition and every cell of the returned delta table is written.       *)
(***************************************************************************)
EXTENDS Integers, Sequences, FiniteSets, TLC

VARIABLES
    x_y_data,                                   \* argument of the delta computation
    pc,                                         \* position in the program
    error,                                      \* the exception raised, "" if none
    deltas,                                     \* local / return value `deltas`
    counter_of_all_zeros_in_a_row_for_all_kps,  \* local dict of dicts
    kp,                                         \* position of the outer loop in columns
    time_stamp,                                 \* inner loop variable
    loc_of_last_timestamp_before_zero,
    counter_of_zeros_in_a_row,
    threshold,                                  \* argument of the summing function
    start_to_end_locations_tuple_list,          \* list of (start, end) tuples
    sums                                        \* the summary table, a sequence of rows

vars == << x_y_data, pc, error, deltas, counter_of_all_zeros_in_a_row_for_all_kps,
           kp, time_stamp, loc_of_last_timestamp_before_zero,
           counter_of_zeros_in_a_row, threshold,
           start_to_end_locations_tuple_list, sums >>

(***************************************************************************)
(* Bounds of the model.                                                    *)
(***************************************************************************)
MaxCells == 6

MaxVal == 2

MaxThreshold == 1

MaxAggRows == 2

MaxRanges == 2

(***************************************************************************)
(* Generic helpers.                                                        *)
(***************************************************************************)
Range(s) == { s[k] : k \in DOMAIN s }

Min(a, b) == IF a < b THEN a ELSE b

\* A python list / column given as a TLA+ sequence, re-indexed from 0.
Col0(s) == [ t \in 0 .. Len(s) - 1 |-> s[t + 1] ]

Len0(f) == Cardinality(DOMAIN f)

RECURSIVE SumFromTo(_, _, _)
SumFromTo(f, lo, hi) == IF lo > hi THEN 0 ELSE f[lo] + SumFromTo(f, lo + 1, hi)

\* sum(values[i:j]) of a python list or positional Series slice: the slice is
\* clipped at the end of the list, and the sum of an empty slice is 0.
SliceSum(f, i, j) == SumFromTo(f, i, Min(j, Len0(f)) - 1)

(***************************************************************************)
(* Inputs: the coordinate tables the delta computation is called with.     *)
(***************************************************************************)
\* KP_0_x / KP_0_y are the nose columns the summing function reads.
ColumnLists == { <<>>, <<"KP_0_x">>, <<"KP_0_x", "KP_0_y">> }

\* A frame with the columns cs and n rows, its first column holding dx and its
\* second dy.
Frame(cs, n, dx, dy) ==
    [columns |-> cs, nrows |-> n,
     data |-> [c \in Range(cs) |-> IF c = cs[1] THEN dx ELSE dy]]

\* The columns of n cells over V that the column at position k of cs can hold
\* (the empty column where cs has no such position).
ColumnValues(cs, k, n, V) == IF k <= Len(cs) THEN [0 .. n - 1 -> V] ELSE { <<>> }

RowCounts(cs) == { n \in 0 .. MaxCells : n * Len(cs) <= MaxCells }

\* The worked examples of the documentation, one channel each.
ScenarioColumns == { <<1, 2, 0, 5>>, <<3, 0, 0, 0, 7>>, <<0, 5, 5, 0, 0, 9>> }

ScenarioTables ==
    { [columns |-> <<"KP_0_x">>, nrows |-> Len(s), data |-> [c \in {"KP_0_x"} |-> Col0(s)]]
        : s \in ScenarioColumns }

Thresholds == -1 .. MaxThreshold

\* A local that is not bound yet.
NoFrame == [columns |-> <<>>, nrows |-> 0, data |-> <<>>]

(***************************************************************************)
(* get_table_of_deltas_between_time_stamps_in_all_kps                      *)
(***************************************************************************)
\* Variant: the emptiness test is missing.
IsEmpty_Never(df) == FALSE

\* DataFrame.empty: some axis has length 0.
IsEmpty(df) == df.nrows = 0 \/ Len(df.columns) = 0

\* pd.DataFrame(columns=..., index=range(n)): every cell NaN.
NewFrame(cs, n) ==
    [columns |-> cs, nrows |-> IF n < 0 THEN 0 ELSE n, data |-> [c \in Range(cs) |-> <<>>]]

\* df.at[row, column] = value
FrameAtPut(df, row, column, value) ==
    [df EXCEPT !.data[column] = (row :> value) @@ @]

\* Variant: the default position of the last detected step is 1.
InitialLoc_AsOne == 0 + 1

\* loc_of_last_timestamp_before_zero = 0, at the start of every key point.
InitialLoc == 0

\* Variant: the operands swapped.
BothPositiveDelta_Swapped(col, ts) == col[ts] - col[ts + 1]

\* Both steps detected: the plain difference.
BothPositiveDelta(col, ts) == col[ts + 1] - col[ts]

\* Variant: the difference is taken against the intervening zero.
BridgeDelta_AgainstZero(col, ts, loc) == col[ts + 1] - col[ts]

\* Detection resumes: the difference against the value at loc.
BridgeDelta(col, ts, loc) == col[ts + 1] - col[loc]

\* Variant: the position is not updated on entering a gap.
LocAtGapEntry_Stale(ts, loc) == loc

\* loc_of_last_timestamp_before_zero = time_stamp, on entering a gap.
LocAtGapEntry(ts, loc) == ts

KpName == x_y_data.columns[kp]

Column == x_y_data.data[KpName]

\* The end of one pass of the inner loop: the next time stamp, or, when the
\* range is exhausted, the next key point.
NextIteration ==
    IF time_stamp + 1 < x_y_data.nrows - 1
    THEN /\ time_stamp' = time_stamp + 1
         /\ UNCHANGED << kp, pc >>
    ELSE /\ kp' = kp + 1
         /\ pc' = "for_kp"
         /\ UNCHANGED time_stamp

Call ==
    /\ pc = "call"
    /\ IF IsEmpty(x_y_data)
       THEN /\ pc' = "raised"
            /\ error' = "ValueError"
            /\ UNCHANGED << deltas, counter_of_all_zeros_in_a_row_for_all_kps, kp >>
       ELSE /\ counter_of_all_zeros_in_a_row_for_all_kps' = <<>>
            /\ deltas' = NewFrame(x_y_data.columns, x_y_data.nrows - 1)
            /\ kp' = 1
            /\ pc' = "for_kp"
            /\ UNCHANGED error
    /\ UNCHANGED << x_y_data, time_stamp, loc_of_last_timestamp_before_zero,
                    counter_of_zeros_in_a_row, threshold,
                    start_to_end_locations_tuple_list, sums >>

ForKp ==
    /\ pc = "for_kp"
    /\ kp <= Len(x_y_data.columns)
    /\ counter_of_all_zeros_in_a_row_for_all_kps' =
           (KpName :> <<>>) @@ counter_of_all_zeros_in_a_row_for_all_kps
    /\ loc_of_last_timestamp_before_zero' = InitialLoc
    /\ counter_of_zeros_in_a_row' = 0
    /\ IF 0 < x_y_data.nrows - 1
       THEN /\ time_stamp' = 0
            /\ pc' = "for_time_stamp"
            /\ UNCHANGED kp
       ELSE /\ kp' = kp + 1
            /\ UNCHANGED << time_stamp, pc >>
    /\ UNCHANGED << x_y_data, error, deltas, threshold,
                    start_to_end_locations_tuple_list, sums >>

BothPositive ==
    /\ pc = "for_time_stamp"
    /\ Column[time_stamp] > 0 /\ Column[time_stamp + 1] > 0
    /\ deltas' = FrameAtPut(deltas, time_stamp, KpName, BothPositiveDelta(Column, time_stamp))
    /\ NextIteration
    /\ UNCHANGED << x_y_data, error, counter_of_all_zeros_in_a_row_for_all_kps,
                    loc_of_last_timestamp_before_zero, counter_of_zeros_in_a_row,
                    threshold, start_to_end_locations_tuple_list, sums >>

Bridge ==
    /\ pc = "for_time_stamp"
    /\ Column[time_stamp] = 0 /\ Column[time_stamp + 1] > 0
    /\ deltas' = FrameAtPut(deltas, time_stamp, KpName,
                            BridgeDelta(Column, time_stamp, loc_of_last_timestamp_before_zero))
    /\ counter_of_all_zeros_in_a_row_for_all_kps' =
           [counter_of_all_zeros_in_a_row_for_all_kps EXCEPT
               ![KpName] = (time_stamp :> counter_of_zeros_in_a_row) @@ @]
    /\ counter_of_zeros_in_a_row' = 0
    /\ NextIteration
    /\ UNCHANGED << x_y_data, error, loc_of_last_timestamp_before_zero,
                    threshold, start_to_end_locations_tuple_list, sums >>

BothZero ==
    /\ pc = "for_time_stamp"
    /\ Column[time_stamp] = 0 /\ Column[time_stamp + 1] = 0
    /\ counter_of_zeros_in_a_row' = counter_of_zeros_in_a_row + 1
    /\ deltas' = FrameAtPut(deltas, time_stamp, KpName, 0)
    /\ NextIteration
    /\ UNCHANGED << x_y_data, error, counter_of_all_zeros_in_a_row_for_all_kps,
                    loc_of_last_timestamp_before_zero,
                    threshold, start_to_end_locations_tuple_list, sums >>

EnterGap ==
    /\ pc = "for_time_stamp"
    /\ Column[time_stamp] > 0 /\ Column[time_stamp + 1] = 0
    /\ loc_of_last_timestamp_before_zero' =
           LocAtGapEntry(time_stamp, loc_of_last_timestamp_before_zero)
    /\ deltas' = FrameAtPut(deltas, time_stamp, KpName, 0)
    /\ counter_of_zeros_in_a_row' = 1
    /\ NextIteration
    /\ UNCHANGED << x_y_data, error, counter_of_all_zeros_in_a_row_for_all_kps,
                    threshold, start_to_end_locations_tuple_list, sums >>

Return ==
    /\ pc = "for_kp"
    /\ kp > Len(x_y_data.columns)
    /\ pc' = "returned"
    /\ UNCHANGED << x_y_data, error, deltas, counter_of_all_zeros_in_a_row_for_all_kps,
                    kp, time_stamp, loc_of_last_timestamp_before_zero,
                    counter_of_zeros_in_a_row, threshold,
                    start_to_end_locations_tuple_list, sums >>

(***************************************************************************)
(* get_start_to_end_list                                                   *)
(***************************************************************************)
\* The fixed window of the scan: range(30).
W == 30

\* Variant: an off-by-one comparison.
Exceeds_ByMoreThanOne(s, th) == s > th + 1

\* sum(...) > threshold
Exceeds(s, th) == s > th

\* Variant: the scan starts one window past the end of the list.
StartCount_OnePastEnd(values_x) == Len0(values_x) + 1

\* The number of start indices: range(len(values_x)).
StartCount(values_x) == Len0(values_x)

\* Variant: the first qualifying window of every start index only (a scan
\* that stops at the first hit).
get_start_to_end_list_FirstHit(values_x, values_y, th) ==
    LET cand == [ idx \in 1 .. StartCount(values_x) * W |->
                     << (idx - 1) \div W, ((idx - 1) \div W) + ((idx - 1) % W) >> ]
        Hit(p) == \/ Exceeds(SliceSum(values_x, p[1], p[2]), th)
                  \/ Exceeds(SliceSum(values_y, p[1], p[2]), th)
        First(p) == Hit(p) /\ \A e \in p[1] .. p[2] - 1 : ~Hit(<<p[1], e>>)
    IN  SelectSeq(cand, First)

\* The pairs (i, i + j) in the order of the two nested loops, i outermost,
\* kept when either slice sum exceeds the threshold.
get_start_to_end_list(values_x, values_y, th) ==
    LET cand == [ idx \in 1 .. StartCount(values_x) * W |->
                     << (idx - 1) \div W, ((idx - 1) \div W) + ((idx - 1) % W) >> ]
        Hit(p) == \/ Exceeds(SliceSum(values_x, p[1], p[2]), th)
                  \/ Exceeds(SliceSum(values_y, p[1], p[2]), th)
    IN  SelectSeq(cand, Hit)

(***************************************************************************)
(* create_timestamps_column, create_column_of_sum_for_kp_in_range          *)
(*                                                                         *)
(* A one-column frame built by .at assignments is the sequence of its rows *)
(* [key, value], in the order the row labels were first assigned.          *)
(***************************************************************************)
Digit(d) ==
    CASE d = 0 -> "0" [] d = 1 -> "1" [] d = 2 -> "2" [] d = 3 -> "3" [] d = 4 -> "4"
      [] d = 5 -> "5" [] d = 6 -> "6" [] d = 7 -> "7" [] d = 8 -> "8" [] d = 9 -> "9"

\* str() of a non-negative int.
RECURSIVE NatToStr(_)
NatToStr(n) == IF n < 10 THEN Digit(n) ELSE NatToStr(n \div 10) \o Digit(n % 10)

\* f"{i}-{j}"
Label(i, j) == NatToStr(i) \o "-" \o NatToStr(j)

HasKey(col, key) == \E r \in DOMAIN col : col[r].key = key

\* Variant: an existing row is kept instead of overwritten.
ColumnAtPut_KeepFirst(col, key, value) ==
    IF HasKey(col, key) THEN col ELSE Append(col, [key |-> key, value |-> value])

\* col.at[key, name] = value: overwrites the row labelled key, or appends it.
ColumnAtPut(col, key, value) ==
    IF HasKey(col, key)
    THEN [ r \in DOMAIN col |-> IF col[r].key = key THEN [key |-> key, value |-> value]
                                                   ELSE col[r] ]
    ELSE Append(col, [key |-> key, value |-> value])

\* The one element of a singleton set. { F(v) : v \in {e} } evaluates e once
\* and binds its value to v, as a python assignment does.
Only(S) == CHOOSE v \in S : TRUE

\* for i, j in ranges: col.at[i, "timestamps"] = f"{i}-{j}"
\* The passes lo .. hi of the loop, in order, starting from column col; the
\* passes are split in two halves only to keep the evaluation shallow.
RECURSIVE TimestampsLoop(_, _, _, _)
TimestampsLoop(ranges, lo, hi, col) ==
    IF lo > hi THEN col
    ELSE IF lo = hi
    THEN ColumnAtPut(col, ranges[lo][1], Label(ranges[lo][1], ranges[lo][2]))
    ELSE Only({ TimestampsLoop(ranges, ((lo + hi) \div 2) + 1, hi, c) :
                  c \in { TimestampsLoop(ranges, lo, (lo + hi) \div 2, col) } })

create_timestamps_column(ranges) == TimestampsLoop(ranges, 1, Len(ranges), <<>>)

\* for i, j in ranges: col.at[i, "sums"] = delta_kp_column[i:j].sum()
RECURSIVE SumLoop(_, _, _, _, _)
SumLoop(delta_kp_column, ranges, lo, hi, col) ==
    IF lo > hi THEN col
    ELSE IF lo = hi
    THEN ColumnAtPut(col, ranges[lo][1],
                     SliceSum(delta_kp_column, ranges[lo][1], ranges[lo][2]))
    ELSE Only({ SumLoop(delta_kp_column, ranges, ((lo + hi) \div 2) + 1, hi, c) :
                  c \in { SumLoop(delta_kp_column, ranges, lo, (lo + hi) \div 2, col) } })

create_column_of_sum_for_kp_in_range(delta_kp_column, ranges) ==
    SumLoop(delta_kp_column, ranges, 1, Len(ranges), <<>>)

(***************************************************************************)
(* get_table_of_summed_distances_for_kp_over_time                          *)
(***************************************************************************)
\* The cell of a column frame at a row label (columns are aligned on the
\* index of the frame they are assigned into).
CellAt(col, key) == col[CHOOSE r \in DOMAIN col : col[r].key = key].value

\* sums["timestamps"] = ...; for kp in columns: sums[kp] = ...
\* The first assignment gives the empty frame its index; every column
\* assigned afterwards is aligned on it. A row of the summary table is
\* [key, timestamps, sums], sums[c] the cell of column c.
SummaryRows(ts, sum_col) ==
    [ r \in 1 .. Len(ts) |->
        [ key        |-> ts[r].key,
          timestamps |-> ts[r].value,
          sums       |-> [ c \in DOMAIN sum_col |-> CellAt(sum_col[c], ts[r].key) ] ] ]

SummaryTable(deltas_table, ranges) ==
    Only({ SummaryRows(ts, sum_col) :
             ts \in { create_timestamps_column(ranges) },
             sum_col \in { [ c \in Range(deltas_table.columns) |->
                              create_column_of_sum_for_kp_in_range(deltas_table.data[c],
                                                                   ranges) ] } })

nose_columns_names == << "KP_0_x", "KP_0_y" >>

GetSummed ==
    /\ pc = "returned"
    /\ \E th \in Thresholds :
         /\ threshold' = th
         /\ IF \E n \in 1 .. 2 : nose_columns_names[n] \notin Range(deltas.columns)
            THEN /\ pc' = "raised"
                 /\ error' = "KeyError"
                 /\ UNCHANGED << start_to_end_locations_tuple_list, sums >>
            ELSE /\ start_to_end_locations_tuple_list' =
                        get_start_to_end_list(deltas.data[nose_columns_names[1]],
                                              deltas.data[nose_columns_names[2]], th)
                 /\ sums' = SummaryTable(deltas, start_to_end_locations_tuple_list')
                 /\ pc' = "summed"
                 /\ UNCHANGED error
    /\ UNCHANGED << x_y_data, deltas, counter_of_all_zeros_in_a_row_for_all_kps,
                    kp, time_stamp, loc_of_last_timestamp_before_zero,
                    counter_of_zeros_in_a_row >>

(***************************************************************************)
(* The two column builders applied to a caller-supplied list of ranges.    *)
(***************************************************************************)
\* The cells of the delta tables the builders are applied to: a negative and a
\* positive delta, so that windows of different extent have different sums.
AggValues == { -1, 2 }

AggScenarioTable ==
    [columns |-> nose_columns_names, nrows |-> 8,
     data |-> [ c \in Range(nose_columns_names) |->
                  IF c = "KP_0_x" THEN Col0(<<1, 2, 4, 8, 16, 32, 64, 128>>)
                                  ELSE Col0(<<-1, 3, -5, 7, -9, 11, -13, 15>>) ]]

AggScenarioRanges == << <<2, 4>>, <<2, 7>> >>

\* Ranges over a table of n rows: the start is a row, the end may pass the
\* last row by one (the slice is then clipped).
RangePairs(n) == { <<i, j>> \in (0 .. n - 1) \X (0 .. n + 1) : i <= j }

RangeLists(n) == UNION { [1 .. len -> RangePairs(n)] : len \in 0 .. MaxRanges }

Aggregate ==
    /\ pc = "aggregate"
    /\ sums' = SummaryTable(deltas, start_to_end_locations_tuple_list)
    /\ pc' = "summed"
    /\ UNCHANGED << x_y_data, error, deltas, counter_of_all_zeros_in_a_row_for_all_kps,
                    kp, time_stamp, loc_of_last_timestamp_before_zero,
                    counter_of_zeros_in_a_row, threshold,
                    start_to_end_locations_tuple_list >>

InitAgg ==
    /\ \/ \E n \in 0 .. MaxAggRows :
            \E dx \in ColumnValues(nose_columns_names, 1, n, AggValues) :
              \E dy \in ColumnValues(nose_columns_names, 2, n, AggValues) :
                 /\ deltas = Frame(nose_columns_names, n, dx, dy)
                 /\ start_to_end_locations_tuple_list \in RangeLists(n)
       \/ /\ deltas = AggScenarioTable
          /\ start_to_end_locations_tuple_list = AggScenarioRanges
    /\ pc = "aggregate"
    /\ x_y_data = NoFrame
    /\ error = ""
    /\ counter_of_all_zeros_in_a_row_for_all_kps = <<>>
    /\ kp = 0
    /\ time_stamp = 0
    /\ loc_of_last_timestamp_before_zero = 0
    /\ counter_of_zeros_in_a_row = 0
    /\ threshold = 0
    /\ sums = <<>>

NextAgg == Aggregate

SpecAgg == InitAgg /\ [][NextAgg]_vars

Init ==
    /\ \/ x_y_data \in ScenarioTables
       \/ \E cs \in ColumnLists : \E n \in RowCounts(cs) :
            \E dx \in ColumnValues(cs, 1, n, 0 .. MaxVal) :
              \E dy \in ColumnValues(cs, 2, n, 0 .. MaxVal) :
                 x_y_data = Frame(cs, n, dx, dy)
    /\ pc = "call"
    /\ error = ""
    /\ deltas = NoFrame
    /\ counter_of_all_zeros_in_a_row_for_all_kps = <<>>
    /\ kp = 0
    /\ time_stamp = 0
    /\ loc_of_last_timestamp_before_zero = 0
    /\ counter_of_zeros_in_a_row = 0
    /\ threshold = 0
    /\ start_to_end_locations_tuple_list = <<>>
    /\ sums = <<>>

Next ==
    \/ Call
    \/ ForKp
    \/ BothPositive
    \/ Bridge
    \/ BothZero
    \/ EnterGap
    \/ Return
    \/ GetSummed

Spec == Init /\ [][Next]_vars

(***************************************************************************)
(* Properties.  The definitions below state what is claimed of the program *)
(* in terms of the inputs and outputs only; none of them is used by the    *)
(* model above.                                                            *)
(***************************************************************************)
\* The sum of the cells of f at the positions a .. b - 1 that f has.
RECURSIVE SumOver(_, _)
SumOver(f, S) ==
    IF S = {} THEN 0
    ELSE LET m == CHOOSE x \in S : \A y \in S : x <= y IN f[m] + SumOver(f, S \ {m})

WindowSum(f, a, b) == SumOver(f, { m \in DOMAIN f : a <= m /\ m < b })

\* The steps before step i at which the channel was detected.
DetectedBefore(col, i) == { m \in 0 .. i - 1 : col[m] > 0 }

LastDetectedBefore(col, i) ==
    CHOOSE m \in DetectedBefore(col, i) : \A o \in DetectedBefore(col, i) : o <= m

\* The length of the run of undetected steps that ends at step i.
ZeroRunEndingAt(col, i) == Cardinality({ a \in 0 .. i : \A m \in a .. i : col[m] = 0 })

NoseX == deltas.data[nose_columns_names[1]]

NoseY == deltas.data[nose_columns_names[2]]

\* The pipeline ran to the end: GetSummed returned a summary table.
Summed == pc = "summed" /\ x_y_data # NoFrame

\* C1 as stated: at every bridging transition i (value[i] = 0, value[i+1] > 0)
\* there is a most recent detected step before i, and the delta is value[i+1]
\* minus the value at that step, however long the run of zeros; the channel
\* [1, 2, 0, 5] gives the deltas [1, 0, 3].
C1_GapBridging_AsStated ==
    \A c \in Range(deltas.columns) :
        LET col == x_y_data.data[c] IN
        /\ \A i \in DOMAIN deltas.data[c] :
              (col[i] = 0 /\ col[i + 1] > 0)
                 => \E m \in DetectedBefore(col, i) :
                       /\ \A o \in DetectedBefore(col, i) : o <= m
                       /\ deltas.data[c][i] = col[i + 1] - col[m]
        /\ (pc = "returned" /\ col = Col0(<<1, 2, 0, 5>>))
              => deltas.data[c] = Col0(<<1, 0, 3>>)

\* C1 amended: at every bridging transition i the delta is value[i+1] minus
\* the value at the most recent detected step before i when there is one,
\* however long the run of zeros, and value[i+1] minus value[0], which is
\* value[i+1] itself, when the run of zeros starts at step 0; the channel
\* [1, 2, 0, 5] gives the deltas [1, 0, 3].
C1_GapBridging ==
    \A c \in Range(deltas.columns) :
        LET col == x_y_data.data[c] IN
        /\ \A i \in DOMAIN deltas.data[c] :
              (col[i] = 0 /\ col[i + 1] > 0)
                 => IF DetectedBefore(col, i) # {}
                    THEN deltas.data[c][i] = col[i + 1] - col[LastDetectedBefore(col, i)]
                    ELSE /\ deltas.data[c][i] = col[i + 1] - col[0]
                         /\ deltas.data[c][i] = col[i + 1]
        /\ (pc = "returned" /\ col = Col0(<<1, 2, 0, 5>>))
              => deltas.data[c] = Col0(<<1, 0, 3>>)

\* A returned channel with a bridging transition that closes a run of zeros
\* starting at step 0, and a later one that closes a run of at least two zeros
\* after a detected step.
C1_Witness ==
    /\ pc = "returned"
    /\ \E c \in Range(deltas.columns) : \E h, i \in DOMAIN deltas.data[c] :
          LET col == x_y_data.data[c] IN
          /\ col[h] = 0 /\ col[h + 1] > 0 /\ DetectedBefore(col, h) = {}
          /\ i >= h + 3 /\ col[i] = 0 /\ col[i - 1] = 0 /\ col[i + 1] > 0
          /\ deltas.data[c][i] # 0
          /\ deltas.data[c][i] # col[i + 1]

\* C2: for a channel with no zero at any step the delta table has T - 1 rows
\* and delta[i] = table[i+1] - table[i] for every i in 0 .. T-2.
C2_NoGapIdentity ==
    \A c \in Range(deltas.columns) :
        LET col == x_y_data.data[c] IN
        (\A t \in DOMAIN col : col[t] > 0)
           => /\ deltas.nrows = x_y_data.nrows - 1
              /\ \A i \in DOMAIN deltas.data[c] : deltas.data[c][i] = col[i + 1] - col[i]
              /\ pc = "returned" => DOMAIN deltas.data[c] = 0 .. x_y_data.nrows - 2

\* A returned table with a gap-free channel that moves up and down.
C2_Witness ==
    /\ pc = "returned"
    /\ \E c \in Range(deltas.columns) :
          LET col == x_y_data.data[c] IN
          /\ \A t \in DOMAIN col : col[t] > 0
          /\ \E i, k \in DOMAIN deltas.data[c] :
                deltas.data[c][i] > 0 /\ deltas.data[c][k] < 0

\* C3: the zero-run length recorded at a bridging transition i is the number
\* of consecutive undetected steps in the run that ends at step i, and the
\* counter is 0 right after the bridging transition.
C3_ZeroRunCounting ==
    /\ \A c \in DOMAIN counter_of_all_zeros_in_a_row_for_all_kps :
          \A i \in DOMAIN counter_of_all_zeros_in_a_row_for_all_kps[c] :
             counter_of_all_zeros_in_a_row_for_all_kps[c][i]
                = ZeroRunEndingAt(x_y_data.data[c], i)
    /\ (/\ pc = "for_time_stamp" /\ time_stamp >= 1
        /\ Column[time_stamp - 1] = 0 /\ Column[time_stamp] > 0)
          => counter_of_zeros_in_a_row = 0

\* C4 as stated: the channel [0, 5, 5, 0, 0, 9] gives the deltas
\* [0, 0, -5, 0, 9].
C4_EndToEnd_AsStated ==
    \A c \in Range(deltas.columns) :
        (pc = "returned" /\ x_y_data.data[c] = Col0(<<0, 5, 5, 0, 0, 9>>))
           => deltas.data[c] = Col0(<<0, 0, -5, 0, 9>>)

\* C4 amended: the channel [0, 5, 5, 0, 0, 9] gives the 5-row delta sequence
\* [5, 0, 0, 0, 4].
C4_EndToEnd ==
    \A c \in Range(deltas.columns) :
        (pc = "returned" /\ x_y_data.data[c] = Col0(<<0, 5, 5, 0, 0, 9>>))
           => /\ deltas.nrows = 5
              /\ deltas.data[c] = Col0(<<5, 0, 0, 0, 4>>)

\* The delta computation has returned for the 6-step scenario.
C4_Witness ==
    /\ pc = "returned"
    /\ \E c \in Range(deltas.columns) : x_y_data.data[c] = Col0(<<0, 5, 5, 0, 0, 9>>)
    /\ deltas.nrows = 5

\* C5: the list of ranges holds exactly the pairs (i, i+j), 0 <= i < N,
\* 0 <= j < W, whose clipped window sum of ref_x or of ref_y exceeds the
\* threshold, each once, ascending in i and then in j, so none has
\* end - start >= W.
C5_ExactlyTheQualifyingPairs ==
    Summed =>
       LET L == start_to_end_locations_tuple_list
           N == deltas.nrows
           Qualifies(i, e) == \/ WindowSum(NoseX, i, e) > threshold
                              \/ WindowSum(NoseY, i, e) > threshold
       IN  /\ \A k \in DOMAIN L :
                /\ L[k][1] \in 0 .. N - 1
                /\ L[k][2] - L[k][1] \in 0 .. W - 1
                /\ Qualifies(L[k][1], L[k][2])
           /\ \A R \in { Range(L) } : \A i \in 0 .. N - 1 : \A j \in 0 .. W - 1 :
                Qualifies(i, i + j) => <<i, i + j>> \in R
           /\ \A k \in 1 .. Len(L) - 1 :
                \/ L[k][1] < L[k + 1][1]
                \/ L[k][1] = L[k + 1][1] /\ L[k][2] < L[k + 1][2]

\* A list in which one start index contributes several windows and two
\* start indices contribute.
C5_Witness ==
    /\ Summed
    /\ \E k, m \in DOMAIN start_to_end_locations_tuple_list :
          LET L == start_to_end_locations_tuple_list IN
          /\ L[k][1] = L[m][1] /\ L[k][2] < L[m][2]
    /\ \E k, m \in DOMAIN start_to_end_locations_tuple_list :
          LET L == start_to_end_locations_tuple_list IN L[k][1] < L[m][1]
    /\ \E i \in 0 .. deltas.nrows - 1 : \E j \in 1 .. W - 1 :
          <<i, i + j>> \notin Range(start_to_end_locations_tuple_list)

\* C6 as stated: start and end of every produced range are inside [0, N).
C6_BothInsideTable ==
    Summed =>
       \A k \in DOMAIN start_to_end_locations_tuple_list :
          LET r == start_to_end_locations_tuple_list[k] IN
          /\ 0 <= r[1] /\ r[1] < deltas.nrows
          /\ 0 <= r[2] /\ r[2] < deltas.nrows

\* C6 amended: the start of every produced range is inside [0, N) and its end
\* is between start and start + W - 1; the end is not clipped at N.
C6_StartInsideEndWithinWindow ==
    Summed =>
       \A k \in DOMAIN start_to_end_locations_tuple_list :
          LET r == start_to_end_locations_tuple_list[k] IN
          /\ 0 <= r[1] /\ r[1] < deltas.nrows
          /\ r[1] <= r[2] /\ r[2] <= r[1] + 29

\* A produced range whose end lies beyond the last row of the delta table.
C6_Witness ==
    /\ Summed
    /\ \E k \in DOMAIN start_to_end_locations_tuple_list :
          start_to_end_locations_tuple_list[k][2] > deltas.nrows

\* C7 as stated: with threshold 0 and a positive reference delta at p, every
\* range (i, i+j) with i <= p and 1 <= j < W is in the list.
C7_Saturation_AsStated ==
    (Summed /\ threshold = 0) =>
       \A R \in { Range(start_to_end_locations_tuple_list) } :
          \A c \in Range(nose_columns_names) : \A p \in DOMAIN deltas.data[c] :
             deltas.data[c][p] > 0
                => \A i \in 0 .. p : \A j \in 1 .. W - 1 : <<i, i + j>> \in R

\* C7 amended: with threshold 0 and a positive reference delta at p, every
\* range (i, i+j) with i <= p < i+j, 1 <= j < W, whose window holds no negative
\* delta of that channel is in the list.
C7_Saturation ==
    (Summed /\ threshold = 0) =>
       \A R \in { Range(start_to_end_locations_tuple_list) } :
          \A c \in Range(nose_columns_names) : \A p \in DOMAIN deltas.data[c] :
             deltas.data[c][p] > 0
                => \A i \in 0 .. p : \A j \in 1 .. W - 1 :
                      (/\ p < i + j
                       /\ \A m \in DOMAIN deltas.data[c] :
                             (i <= m /\ m < i + j) => deltas.data[c][m] >= 0)
                         => <<i, i + j>> \in R

\* Threshold 0, a positive delta at p >= 1: a window from 0 that covers p is
\* listed and the window (0, 1) that stops short of it is not.
C7_Witness ==
    /\ Summed /\ threshold = 0
    /\ \E c \in Range(nose_columns_names) : \E p \in DOMAIN deltas.data[c] :
          /\ p >= 1 /\ deltas.data[c][p] > 0
          /\ <<0, p + 1>> \in Range(start_to_end_locations_tuple_list)
          /\ <<0, 1>> \notin Range(start_to_end_locations_tuple_list)

\* C8: the summary table has one row per distinct start index of the list;
\* the row keyed i holds the label "i-j" and, for every channel, the sum of
\* deltas[channel][i:j] of the last range (i, j) of the list with that start;
\* (2,4) then (2,7) leaves only the row of (2,7).
C8_LastWins ==
    pc = "summed" =>
       LET L == start_to_end_locations_tuple_list
           LastWith(i) == CHOOSE k \in DOMAIN L :
                             L[k][1] = i /\ \A m \in DOMAIN L : L[m][1] = i => m <= k
       IN  /\ \A r, q \in DOMAIN sums : r # q => sums[r].key # sums[q].key
           /\ { sums[r].key : r \in DOMAIN sums } = { L[k][1] : k \in DOMAIN L }
           /\ \A r \in DOMAIN sums :
                 LET j == L[LastWith(sums[r].key)][2] IN
                 /\ sums[r].timestamps = Label(sums[r].key, j)
                 /\ \A c \in Range(deltas.columns) :
                       sums[r].sums[c] = WindowSum(deltas.data[c], sums[r].key, j)
           /\ L = AggScenarioRanges =>
                 sums = << [key |-> 2, timestamps |-> "2-7",
                            sums |-> [c \in Range(deltas.columns) |->
                                        WindowSum(deltas.data[c], 2, 7)]] >>

\* An aggregated list with two ranges of the same start whose sums differ,
\* the earlier one not being the one that is kept.
C8_Witness ==
    /\ pc = "summed"
    /\ \E k, m \in DOMAIN start_to_end_locations_tuple_list :
          LET L == start_to_end_locations_tuple_list IN
          /\ k < m /\ L[k][1] = L[m][1]
          /\ \E c \in Range(deltas.columns) :
                WindowSum(deltas.data[c], L[k][1], L[k][2])
                   # WindowSum(deltas.data[c], L[m][1], L[m][2])
    /\ Len(sums) < Len(start_to_end_locations_tuple_list)

\* C9: on a table with zero rows the delta computation ends in the error,
\* raised before the delta table exists, and returns nothing; on a table with
\* at least one row and one channel it never ends in that error.
C9_EmptyInputFailure ==
    /\ x_y_data.nrows = 0
          => /\ pc \in {"call", "raised"}
             /\ pc = "raised" => error = "ValueError"
             /\ deltas = NoFrame
    /\ (x_y_data.nrows >= 1 /\ Len(x_y_data.columns) >= 1) => error # "ValueError"

\* The call on a table with two channels and no rows has raised.
C9_Witness ==
    /\ pc = "raised" /\ error = "ValueError"
    /\ x_y_data.nrows = 0 /\ Len(x_y_data.columns) = 2

\* C10: for a channel detected at step 0 and at a step k >= 1, the deltas
\* 0 .. k-1 add up to value[k] - value[0], whatever zero runs lie between.
C10_Telescoping ==
    \A c \in Range(deltas.columns) :
        LET col == x_y_data.data[c] IN
        \A k \in 1 .. x_y_data.nrows - 1 :
           (col[0] > 0 /\ col[k] > 0 /\ (0 .. k - 1) \subseteq DOMAIN deltas.data[c])
              => WindowSum(deltas.data[c], 0, k) = col[k] - col[0]

\* A returned channel detected at step 0 and at step k with two separate gaps
\* in between and a net displacement.
C10_Witness ==
    /\ pc = "returned"
    /\ \E c \in Range(deltas.columns) :
          LET col == x_y_data.data[c] IN
          \E a, b, d, k \in DOMAIN col :
             /\ 0 < a /\ a < b /\ b < d /\ d < k
             /\ col[0] > 0 /\ col[a] = 0 /\ col[b] > 0 /\ col[d] = 0 /\ col[k] > 0
             /\ col[k] # col[0] /\ col[b] # col[0]

====
